---- MODULE Spec2Model ----
(***************************************************************************)
(* MonitorFlux: the bounded per-topic retention store (src/src/db.rs), the *)
(* event handlers that write to it (src/src/mqtt_service.rs, handle_event),*)
(* the REST query surface that reads it (src/src/rest_server.rs) and the   *)
(* broker connection loop (src/src/mqtt_service.rs, MqttService::start).   *)
(*                                                                         *)
(* The specifications share the variables:                                 *)
(*   SpecStore     calls of the DatabaseService API on one instance; the   *)
(*                 instance's Mutex is held for a whole call, so a call is *)
(*                 one step.                                               *)
(*   SpecHandlers  publish handlers, each opening its own DatabaseService  *)
(*                 on the same database file, and REST readers using the   *)
(*                 instance created in main; one SQL statement is one step *)
(*                 (SQLite autocommit).                                    *)
(*   SpecConn      the serve loop of MqttService::start.                   *)
(*   SpecPublish   publish_message next to the serve loop.                 *)
(*   SpecDispatch  the serve loop with the handle_event tasks it spawns.   *)
(*   SpecTracker   ProgressTracker (src/src/progress_tracker.rs).          *)
(*   SpecCatalog   add_or_update_topic next to insert_value.               *)
(*   SpecIdentity  the serve loop with the client identity of each attempt.*)
(*   SpecUnreachable the serve loop against a broker that never answers.   *)
(*   SpecOrder     publish handlers of one connection and the readers.     *)
(*   SpecQueue     the serve loop and publish_message with the bounded     *)
(*                 request channel of the client, under fair scheduling.   *)
(***************************************************************************)
EXTENDS Integers, Sequences, FiniteSets, TLC

\* ---------------------------------------------------------------- bounds
MaxN == 2            \* largest max_values of a registered topic
MaxInserts == 3      \* INSERT statements executed in one behaviour
MaxClock == 1        \* seconds the CURRENT_TIMESTAMP clock advances
NumHandlers == 2     \* publish handler tasks alive at the same time
MaxDispatched == 2   \* publish events handled in one behaviour
MaxAttempts == 4     \* connection attempts made in one behaviour
MaxPolled == 2       \* events polled during one connection attempt
NumUpdates == 2      \* update_progress calls in one behaviour
MaxCatalogInserts == 1 \* values stored next to the topic upserts
MaxTasks == 2        \* handler tasks spawned in one behaviour
NumPublishers == 1   \* publish_message calls in one behaviour

TopicNames == {"t1", "t2"}
Payloads == {"a", "b"}
Handlers == 1..NumHandlers

Min(a, b) == IF a <= b THEN a ELSE b

VARIABLES
  topics,        \* table topics: rows [topic, max_values]
  topic_values,  \* table topic_values: rows [id, topic, value, ts]
  next_id,       \* AUTOINCREMENT counter of topic_values.id
  clock,         \* CURRENT_TIMESTAMP, in whole seconds
  inserted,      \* every row ever inserted, in the order of the INSERTs
  call,          \* the last completed API call: [op, topic, limit]
  status,        \* its Result: "none" | "Ok"
  result,        \* the rows it returned, as <<value, ts>> pairs
  hpc,           \* per handler: position inside handle_event/insert_value
  htopic,        \* per handler: topic of its publish event
  hvalue,        \* per handler: payload of its publish event
  hmax,          \* per handler: max_values read by its SELECT
  conn_lock,     \* per DatabaseService instance: holder of conn Mutex
  client_state,  \* MqttService.client_state
  client,        \* MqttService.client: 0 = None, k = client of attempt k
  retries,       \* local retries of start
  retry_interval,\* local retry_interval of start, in ms
  pc,            \* position of the serve loop
  exit_reason,   \* why the serve loop left its loop
  sub_result,    \* outcome of the control-topic subscribe of this attempt
  attempts,      \* number of AsyncClient::new calls so far
  since_success, \* failures since the last successful subscribe
  polled,        \* events polled in this attempt
  lost_since_ok, \* a connection was lost and no subscribe has succeeded since
  cfg,           \* MqttConfig: [max_retries, retry_interval_ms, ssl]
  client_lock,   \* holder of the client Mutex: 0 free, q publisher q, -i task i
  ppc,           \* per publish_message call: position
  pattempt,      \* per publish_message call: delivery attempts made
  pwaits,        \* per publish_message call: 1-second sleeps finished
  pdelivered,    \* per publish_message call: publishes that returned Ok
  pstart,        \* per publish_message call: where the serve loop was at the call
  events,        \* every event returned by poll, in poll order
  tasks,         \* the spawned handle_event tasks, in spawn order
  topic_cols,    \* table topics, the columns insert_value does not read:
                 \* rows [topic, parent_topic, query_frequency_ms]
  mqtt_client_id,\* the identity start_mqtt_service hands to start
  used_ids,      \* the identity of every MqttOptions::new, in attempt order
  total_size,    \* ProgressTracker.total_size
  uploaded_size, \* ProgressTracker.uploaded_size
  cancelled,     \* ProgressTracker.cancelled
  uploaded_lock, \* holder of the uploaded_size Mutex: 0 free, u call u
  upd,           \* per update_progress call: [pc, bytes, after_stop]
  spc,           \* position of the stop() call
  progress_msgs, \* every message publish_progress has built, in order
  queue          \* requests waiting in the request channel of the newest client

storeVars == <<topics, topic_values, next_id, clock, inserted, call, status, result>>
handlerVars == <<hpc, htopic, hvalue, hmax, conn_lock>>
connVars == <<client_state, client, retries, retry_interval, pc, exit_reason,
              sub_result, attempts, since_success, polled, lost_since_ok, cfg>>
pubLocal == <<ppc, pattempt, pwaits, pdelivered, pstart>>
pubVars == <<client_lock, pubLocal>>
taskVars == <<events, tasks>>
catalogVars == <<topic_cols>>
identVars == <<mqtt_client_id, used_ids>>
trackVars == <<total_size, uploaded_size, cancelled, uploaded_lock, upd, spc, progress_msgs>>
queueVars == <<queue>>
auxVars == <<catalogVars, identVars, trackVars, queueVars>>
vars == <<storeVars, handlerVars, connVars, pubVars, taskVars, auxVars>>

\* ------------------------------------------------------------ the tables
\* topics.topic is UNIQUE: a table holds at most one row per topic name;
\* max_values is a retention cap of at least 1.
TopicRows == [topic : TopicNames, max_values : 1..MaxN]
TopicTables == {T \in SUBSET TopicRows :
                  \A r1, r2 \in T : r1.topic = r2.topic => r1 = r2}

\* SELECT id, max_values FROM topics WHERE topic = ?1
SelectTopic(t) == {r \in topics : r.topic = t}

\* the rows of topic_values that belong to topic t
RowsOf(t) == {r \in topic_values : r.topic = t}

\* INSERT INTO topic_values (topic_id, value) VALUES (?1, ?2)
\* id is the AUTOINCREMENT key, timestamp defaults to CURRENT_TIMESTAMP.
NewRow(t, v) == [id |-> next_id, topic |-> t, value |-> v, ts |-> clock]

\* TrimKeepSets with LIMIT ?2 + 1: the trim leaves one row too many
TrimKeepSets_OffByOne(rows, n) ==
  {K \in SUBSET rows :
     /\ Cardinality(K) = Min(n + 1, Cardinality(rows))
     /\ \A k \in K : \A r \in rows \ K : k.ts >= r.ts}

\* SELECT id FROM topic_values WHERE topic_id = ?1 ORDER BY timestamp DESC
\* LIMIT ?2: every set of rows the subquery may select. Rows with equal
\* timestamps have no order defined by the query.
TrimKeepSets(rows, n) ==
  {K \in SUBSET rows :
     /\ Cardinality(K) = Min(n, Cardinality(rows))
     /\ \A k \in K : \A r \in rows \ K : k.ts >= r.ts}

\* DELETE FROM topic_values WHERE id NOT IN (K) AND topic_id = ?1,
\* applied to the table tv: every table the statement may leave.
RowsIn(tv, t) == {r \in tv : r.topic = t}
TrimResults(tv, t, n) ==
  {{r \in tv : r.topic # t \/ r \in K} : K \in TrimKeepSets(RowsIn(tv, t), n)}

\* SELECT value, timestamp ... WHERE topic = ?1 ORDER BY timestamp DESC
\* LIMIT ?2: every sequence of rows the query may return.
IsInjective(s) == \A i, j \in DOMAIN s : s[i] = s[j] => i = j
OrderedRows(rows, limit) ==
  LET k == Min(limit, Cardinality(rows)) IN
  {s \in [1..k -> rows] :
     /\ IsInjective(s)
     /\ \A i, j \in 1..k : i < j => s[i].ts >= s[j].ts
     /\ \A r \in rows : (\A i \in 1..k : s[i] # r) => \A i \in 1..k : s[i].ts >= r.ts}

Pairs(s) == [i \in DOMAIN s |-> <<s[i].value, s[i].ts>>]

InitStore ==
  /\ topics \in TopicTables
  /\ topic_values = {}
  /\ next_id = 1
  /\ clock = 0
  /\ inserted = <<>>
  /\ call = [op |-> "none", topic |-> "", limit |-> 0]
  /\ status = "none"
  /\ result = <<>>

\* the wall clock reaches the next second
Tick ==
  /\ clock < MaxClock
  /\ clock' = clock + 1
  /\ UNCHANGED <<topics, topic_values, next_id, inserted, call, status, result>>

\* InsertValue that stores the value although the topic row is missing
InsertValue_NoTopicCheck(t, v) ==
  /\ Len(inserted) < MaxInserts
  /\ call' = [op |-> "insert_value", topic |-> t, limit |-> 0]
  /\ status' = "Ok"
  /\ result' = <<>>
  /\ LET new == NewRow(t, v)
         n == IF SelectTopic(t) # {} THEN (CHOOSE row \in SelectTopic(t) : TRUE).max_values ELSE MaxN IN
     /\ next_id' = next_id + 1
     /\ inserted' = Append(inserted, new)
     /\ topic_values' \in TrimResults(topic_values \cup {new}, t, n)
  /\ UNCHANGED <<topics, clock>>

\* DatabaseService::insert_value, the whole call under the conn Mutex
InsertValue(t, v) ==
  /\ Len(inserted) < MaxInserts
  /\ call' = [op |-> "insert_value", topic |-> t, limit |-> 0]
  /\ status' = "Ok"
  /\ result' = <<>>
  /\ IF SelectTopic(t) # {}
       THEN \E row \in SelectTopic(t) :
              LET new == NewRow(t, v) IN
              /\ next_id' = next_id + 1
              /\ inserted' = Append(inserted, new)
              /\ topic_values' \in TrimResults(topic_values \cup {new}, t, row.max_values)
       ELSE UNCHANGED <<topic_values, next_id, inserted>>
  /\ UNCHANGED <<topics, clock>>

\* DatabaseService::get_last_values
GetLastValues(t, limit) ==
  /\ call' = [op |-> "get_last_values", topic |-> t, limit |-> limit]
  /\ status' = "Ok"
  /\ \E s \in OrderedRows(IF SelectTopic(t) # {} THEN RowsOf(t) ELSE {}, limit) :
       result' = Pairs(s)
  /\ UNCHANGED <<topics, topic_values, next_id, clock, inserted>>

\* GetLastValue with ORDER BY timestamp ASC: the oldest row
GetLastValue_Oldest(t) ==
  /\ call' = [op |-> "get_last_value", topic |-> t, limit |-> 1]
  /\ status' = "Ok"
  /\ LET rows == IF SelectTopic(t) # {} THEN RowsOf(t) ELSE {} IN
     IF rows = {} THEN result' = <<>>
     ELSE \E r \in rows : /\ \A o \in rows : r.ts <= o.ts
                          /\ result' = <<(<<r.value, r.ts>>)>>
  /\ UNCHANGED <<topics, topic_values, next_id, clock, inserted>>

\* DatabaseService::get_last_value: Some(row) is <<row>>, None is <<>>
GetLastValue(t) ==
  /\ call' = [op |-> "get_last_value", topic |-> t, limit |-> 1]
  /\ status' = "Ok"
  /\ \E s \in OrderedRows(IF SelectTopic(t) # {} THEN RowsOf(t) ELSE {}, 1) :
       result' = Pairs(s)
  /\ UNCHANGED <<topics, topic_values, next_id, clock, inserted>>

\* limits a caller passes: below, at and above every row count of a topic
Limits == {1, MaxN + 1}

NextStore ==
  \/ Tick /\ UNCHANGED <<handlerVars, connVars, pubVars, taskVars, auxVars>>
  \/ \E t \in TopicNames, v \in Payloads : InsertValue(t, v) /\ UNCHANGED <<handlerVars, connVars, pubVars, taskVars, auxVars>>
  \/ \E t \in TopicNames, l \in Limits : GetLastValues(t, l) /\ UNCHANGED <<handlerVars, connVars, pubVars, taskVars, auxVars>>
  \/ \E t \in TopicNames : GetLastValue(t) /\ UNCHANGED <<handlerVars, connVars, pubVars, taskVars, auxVars>>

\* ------------------------------------------------- the publish handlers
\* DatabaseService instances: 0 is the one created in main and handed to the
\* REST server; handle_event opens a new one per publish event, instance p
\* for handler p. Each instance has its own conn Mutex.
Instances == {0} \cup Handlers
InstanceOf(p) == p

InitHandlers ==
  /\ hpc = [p \in Handlers |-> "idle"]
  /\ htopic = [p \in Handlers |-> "t1"]
  /\ hvalue = [p \in Handlers |-> "a"]
  /\ hmax = [p \in Handlers |-> 0]
  /\ conn_lock = [i \in Instances |-> FALSE]

Active == {p \in Handlers : hpc[p] # "idle"}

\* handle_event, Publish branch: DatabaseService::new("mqtt_storage.db")
HandlePublish(p, t, v) ==
  /\ hpc[p] = "idle"
  /\ Len(inserted) + Cardinality(Active) < MaxDispatched
  /\ hpc' = [hpc EXCEPT ![p] = "opened"]
  /\ htopic' = [htopic EXCEPT ![p] = t]
  /\ hvalue' = [hvalue EXCEPT ![p] = v]
  /\ UNCHANGED <<hmax, conn_lock, storeVars>>

\* insert_value: lock the instance's Mutex, SELECT the topic row
HandlerSelect(p) ==
  /\ hpc[p] = "opened"
  /\ ~conn_lock[InstanceOf(p)]
  /\ IF SelectTopic(htopic[p]) # {}
       THEN /\ \E row \in SelectTopic(htopic[p]) : hmax' = [hmax EXCEPT ![p] = row.max_values]
            /\ hpc' = [hpc EXCEPT ![p] = "selected"]
            /\ conn_lock' = [conn_lock EXCEPT ![InstanceOf(p)] = TRUE]
            /\ UNCHANGED <<call, status, result>>
       ELSE /\ hpc' = [hpc EXCEPT ![p] = "idle"]
            /\ call' = [op |-> "insert_value", topic |-> htopic[p], limit |-> 0]
            /\ status' = "Ok"
            /\ result' = <<>>
            /\ UNCHANGED <<hmax, conn_lock>>
  /\ UNCHANGED <<htopic, hvalue, topics, topic_values, next_id, clock, inserted>>

\* insert_value: the INSERT statement
HandlerInsert(p) ==
  /\ hpc[p] = "selected"
  /\ topic_values' = topic_values \cup {NewRow(htopic[p], hvalue[p])}
  /\ inserted' = Append(inserted, NewRow(htopic[p], hvalue[p]))
  /\ next_id' = next_id + 1
  /\ hpc' = [hpc EXCEPT ![p] = "inserted"]
  /\ UNCHANGED <<htopic, hvalue, hmax, conn_lock, topics, clock, call, status, result>>

\* insert_value: the DELETE statement, Ok(()) and the release of the Mutex
HandlerTrim(p) ==
  /\ hpc[p] = "inserted"
  /\ topic_values' \in TrimResults(topic_values, htopic[p], hmax[p])
  /\ hpc' = [hpc EXCEPT ![p] = "idle"]
  /\ conn_lock' = [conn_lock EXCEPT ![InstanceOf(p)] = FALSE]
  /\ call' = [op |-> "insert_value", topic |-> htopic[p], limit |-> 0]
  /\ status' = "Ok"
  /\ result' = <<>>
  /\ UNCHANGED <<htopic, hvalue, hmax, topics, next_id, clock, inserted>>

\* rest_server last_values: get_last_values on the instance of main
RestLastValues(t, limit) ==
  /\ ~conn_lock[0]
  /\ GetLastValues(t, limit)
  /\ UNCHANGED handlerVars

\* rest_server last_value: get_last_value on the instance of main
RestLastValue(t) ==
  /\ ~conn_lock[0]
  /\ GetLastValue(t)
  /\ UNCHANGED handlerVars

NextHandlers ==
  \/ Tick /\ UNCHANGED <<handlerVars, connVars, pubVars, taskVars, auxVars>>
  \/ \E p \in Handlers, t \in TopicNames, v \in Payloads : HandlePublish(p, t, v) /\ UNCHANGED <<connVars, pubVars, taskVars, auxVars>>
  \/ \E p \in Handlers : HandlerSelect(p) /\ UNCHANGED <<connVars, pubVars, taskVars, auxVars>>
  \/ \E p \in Handlers : HandlerInsert(p) /\ UNCHANGED <<connVars, pubVars, taskVars, auxVars>>
  \/ \E p \in Handlers : HandlerTrim(p) /\ UNCHANGED <<connVars, pubVars, taskVars, auxVars>>
  \/ \E t \in TopicNames, l \in Limits : RestLastValues(t, l) /\ UNCHANGED <<connVars, pubVars, taskVars, auxVars>>
  \/ \E t \in TopicNames : RestLastValue(t) /\ UNCHANGED <<connVars, pubVars, taskVars, auxVars>>

\* ------------------------------------------------------ the serve loop
\* MqttConfig values the loop reads. max_retries is mqtt_max_retries,
\* retry_interval_ms is inside the range validate_timeouts accepts, ssl is
\* "off" (mqtt_ssl_enabled false), "no_path" (enabled, no cert path) or
\* "path" (enabled with a cert path, read at every iteration).
MaxRetriesValues == {-2, -1, 0, 1, 2, 3}
BaseIntervals == {100, 40000, 1000000}
SslValues == {"off", "path", "no_path"}
Configs == [max_retries : MaxRetriesValues, retry_interval_ms : BaseIntervals, ssl : SslValues]
SubscribeErrors == {"channel closed"}
MaxIntervalMs == 60000

State(tag) == [tag |-> tag, reason |-> ""]
ErrorState(e) == [tag |-> "Error", reason |-> e]

\* MaxRetriesOf without the non-positive case: the configured value as it is
MaxRetriesOf_Raw(c) == c.max_retries

\* let max_retries = if mqtt_max_retries > 0 { mqtt_max_retries } else { -1 }
MaxRetriesOf(c) == IF c.max_retries > 0 THEN c.max_retries ELSE -1

\* BudgetExhausted with > for >=: one attempt too many
BudgetExhausted_Late(c, r) == MaxRetriesOf(c) # -1 /\ r > MaxRetriesOf(c)

\* max_retries != -1 && retries >= max_retries
BudgetExhausted(c, r) == MaxRetriesOf(c) # -1 /\ r >= MaxRetriesOf(c)

\* Backoff without the 60-second cap
Backoff_NoCap(i) == i * 2

\* (retry_interval * 2).min(Duration::from_secs(60))
Backoff(i) == Min(i * 2, MaxIntervalMs)

InitConn ==
  /\ cfg \in Configs
  /\ client_state = State("Disconnected")
  /\ client = 0
  /\ retries = 0
  /\ retry_interval = cfg.retry_interval_ms
  /\ pc = "top"
  /\ exit_reason = "none"
  /\ sub_result = "none"
  /\ attempts = 0
  /\ since_success = 0
  /\ polled = 0
  /\ lost_since_ok = FALSE

\* loop head: the retry budget check
LoopCheck ==
  /\ pc = "top"
  /\ IF BudgetExhausted(cfg, retries)
       THEN pc' = "exited" /\ exit_reason' = "retries"
       ELSE pc' = "configure" /\ UNCHANGED exit_reason
  /\ UNCHANGED <<client_state, client, retries, retry_interval, sub_result,
                 attempts, since_success, polled, lost_since_ok, cfg>>

\* Configure that treats a TLS error as a failed attempt and retries
Configure_Retry(readOk) ==
  /\ pc = "configure"
  /\ attempts < MaxAttempts
  /\ IF cfg.ssl = "no_path" \/ (cfg.ssl = "path" /\ ~readOk)
       THEN pc' = "sleep_sub" /\ retries' = retries + 1
       ELSE pc' = "new_client" /\ UNCHANGED retries
  /\ UNCHANGED <<client_state, client, retry_interval, exit_reason, sub_result,
                 attempts, since_success, polled, lost_since_ok, cfg>>

\* MqttOptions and TLS: a missing path or an unreadable file leaves the loop
Configure(readOk) ==
  /\ pc = "configure"
  /\ attempts < MaxAttempts
  /\ IF cfg.ssl = "no_path" \/ (cfg.ssl = "path" /\ ~readOk)
       THEN pc' = "exited" /\ exit_reason' = "tls"
       ELSE pc' = "new_client" /\ UNCHANGED exit_reason
  /\ UNCHANGED <<client_state, client, retries, retry_interval, sub_result,
                 attempts, since_success, polled, lost_since_ok, cfg>>

\* AsyncClient::new and *client_lock = Some(client.clone())
InstallClient ==
  /\ pc = "new_client"
  /\ client_lock = 0
  /\ attempts' = attempts + 1
  /\ client' = attempts + 1
  /\ sub_result' = "none"
  /\ polled' = 0
  /\ pc' = "set_connecting"
  /\ UNCHANGED <<client_state, retries, retry_interval, exit_reason, since_success, lost_since_ok, cfg>>

\* SetConnecting that reports Connected before the subscribe is issued
SetConnecting_Connected ==
  /\ pc = "set_connecting"
  /\ client_state' = State("Connected")
  /\ pc' = "subscribe"
  /\ UNCHANGED <<client, retries, retry_interval, exit_reason, sub_result,
                 attempts, since_success, polled, lost_since_ok, cfg>>

\* *client_state = ClientState::Connecting
SetConnecting ==
  /\ pc = "set_connecting"
  /\ client_state' = State("Connecting")
  /\ pc' = "subscribe"
  /\ UNCHANGED <<client, retries, retry_interval, exit_reason, sub_result,
                 attempts, since_success, polled, lost_since_ok, cfg>>

\* client.subscribe(control_topic, AtLeastOnce) returned Ok
SubscribeOk ==
  /\ pc = "subscribe"
  /\ sub_result' = "ok"
  /\ client_state' = State("Connected")
  /\ retry_interval' = cfg.retry_interval_ms
  /\ since_success' = 0
  /\ lost_since_ok' = FALSE
  /\ pc' = "poll"
  /\ UNCHANGED <<client, retries, exit_reason, attempts, polled, cfg>>

\* SubscribeErr without the sleep and the continue: falls through to poll
SubscribeErr_FallThrough(e) ==
  /\ pc = "subscribe"
  /\ sub_result' = "err"
  /\ client_state' = ErrorState(e)
  /\ retries' = retries + 1
  /\ since_success' = since_success + 1
  /\ pc' = "poll"
  /\ UNCHANGED <<client, retry_interval, exit_reason, attempts, polled, lost_since_ok, cfg>>

\* client.subscribe returned Err(e): Error(e), retries += 1
SubscribeErr(e) ==
  /\ pc = "subscribe"
  /\ sub_result' = "err"
  /\ client_state' = ErrorState(e)
  /\ retries' = retries + 1
  /\ since_success' = since_success + 1
  /\ pc' = "sleep_sub"
  /\ UNCHANGED <<client, retry_interval, exit_reason, attempts, polled, lost_since_ok, cfg>>

\* sleep(retry_interval), then the doubling, then continue
SleepAfterSubscribeErr ==
  /\ pc = "sleep_sub"
  /\ retry_interval' = Backoff(retry_interval)
  /\ pc' = "top"
  /\ UNCHANGED <<client_state, client, retries, exit_reason, sub_result,
                 attempts, since_success, polled, lost_since_ok, cfg>>

\* eventloop.poll() returned Ok(event): a handler task is spawned
PollOk ==
  /\ pc = "poll"
  /\ polled < MaxPolled
  /\ polled' = polled + 1
  /\ UNCHANGED <<client_state, client, retries, retry_interval, pc, exit_reason,
                 sub_result, attempts, since_success, lost_since_ok, cfg>>

\* PollErr that records the I/O error as Error instead of Disconnected
PollErr_Error ==
  /\ pc = "poll"
  /\ client_state' = ErrorState("io")
  /\ lost_since_ok' = TRUE
  /\ pc' = "lost"
  /\ UNCHANGED <<client, retries, retry_interval, exit_reason, sub_result,
                 attempts, since_success, polled, cfg>>

\* eventloop.poll() returned Err: Disconnected, leave the inner loop
PollErr ==
  /\ pc = "poll"
  /\ client_state' = State("Disconnected")
  /\ lost_since_ok' = TRUE
  /\ pc' = "lost"
  /\ UNCHANGED <<client, retries, retry_interval, exit_reason, sub_result,
                 attempts, since_success, polled, cfg>>

\* after the inner loop: retries += 1
LostConnection ==
  /\ pc = "lost"
  /\ retries' = retries + 1
  /\ since_success' = since_success + 1
  /\ pc' = "sleep_lost"
  /\ UNCHANGED <<client_state, client, retry_interval, exit_reason, sub_result,
                 attempts, polled, lost_since_ok, cfg>>

\* SleepAfterLost that leaves the outer loop instead of reconnecting
SleepAfterLost_Break ==
  /\ pc = "sleep_lost"
  /\ retry_interval' = Backoff(retry_interval)
  /\ pc' = "exited"
  /\ UNCHANGED <<client_state, client, retries, exit_reason, sub_result,
                 attempts, since_success, polled, lost_since_ok, cfg>>

\* sleep(retry_interval), then the doubling
SleepAfterLost ==
  /\ pc = "sleep_lost"
  /\ retry_interval' = Backoff(retry_interval)
  /\ pc' = "top"
  /\ UNCHANGED <<client_state, client, retries, exit_reason, sub_result,
                 attempts, since_success, polled, lost_since_ok, cfg>>

NextConn ==
  \/ LoopCheck /\ UNCHANGED <<storeVars, handlerVars, pubVars, taskVars, auxVars>>
  \/ \E ok \in BOOLEAN : Configure(ok) /\ UNCHANGED <<storeVars, handlerVars, pubVars, taskVars, auxVars>>
  \/ InstallClient /\ UNCHANGED <<storeVars, handlerVars, pubVars, taskVars, auxVars>>
  \/ SetConnecting /\ UNCHANGED <<storeVars, handlerVars, pubVars, taskVars, auxVars>>
  \/ SubscribeOk /\ UNCHANGED <<storeVars, handlerVars, pubVars, taskVars, auxVars>>
  \/ \E e \in SubscribeErrors : SubscribeErr(e) /\ UNCHANGED <<storeVars, handlerVars, pubVars, taskVars, auxVars>>
  \/ SleepAfterSubscribeErr /\ UNCHANGED <<storeVars, handlerVars, pubVars, taskVars, auxVars>>
  \/ PollOk /\ UNCHANGED <<storeVars, handlerVars, pubVars, taskVars, auxVars>>
  \/ PollErr /\ UNCHANGED <<storeVars, handlerVars, pubVars, taskVars, auxVars>>
  \/ LostConnection /\ UNCHANGED <<storeVars, handlerVars, pubVars, taskVars, auxVars>>
  \/ SleepAfterLost /\ UNCHANGED <<storeVars, handlerVars, pubVars, taskVars, auxVars>>

\* ------------------------------------------------------ specifications
\* --------------------------------------------------- publish_message
Publishers == 1..NumPublishers
PublishAttempts == 5
PublishWaitMs == 1000

\* EventLoopAlive for an event loop that outlives start
EventLoopAlive_Forever == TRUE

\* the event loop created with the installed client is still alive: it is
\* dropped at the end of the loop iteration that created it
EventLoopAlive ==
  pc \in {"set_connecting", "subscribe", "poll", "lost", "sleep_sub", "sleep_lost"}

InitPublish ==
  /\ client_lock = 0
  /\ ppc = [q \in Publishers |-> "idle"]
  /\ pattempt = [q \in Publishers |-> 0]
  /\ pwaits = [q \in Publishers |-> 0]
  /\ pdelivered = [q \in Publishers |-> 0]
  /\ pstart = [q \in Publishers |-> "none"]

\* a caller enters publish_message: first iteration of for _ in 0..5
PubCall(q) ==
  /\ ppc[q] = "idle"
  /\ ppc' = [ppc EXCEPT ![q] = "lock"]
  /\ pstart' = [pstart EXCEPT ![q] = pc]
  /\ UNCHANGED <<client_lock, pattempt, pwaits, pdelivered, connVars>>

\* let client = self.client.lock().await; the None arm logs and goes on to
\* the sleep, the Some arm goes on to the publish
PubLock(q) ==
  /\ ppc[q] = "lock"
  /\ client_lock = 0
  /\ client_lock' = q
  /\ IF client = 0
       THEN /\ ppc' = [ppc EXCEPT ![q] = "sleep"]
            /\ pattempt' = [pattempt EXCEPT ![q] = @ + 1]
       ELSE /\ ppc' = [ppc EXCEPT ![q] = "send"]
            /\ UNCHANGED pattempt
  /\ UNCHANGED <<pwaits, pdelivered, pstart, connVars>>

\* client.publish(...).await returned: Ok needs a living event loop; Ok
\* returns from the call (the guard is dropped), Err goes on to the sleep
PubSend(q, ok) ==
  /\ ppc[q] = "send"
  /\ ok => EventLoopAlive
  /\ pattempt' = [pattempt EXCEPT ![q] = @ + 1]
  /\ IF ok
       THEN /\ pdelivered' = [pdelivered EXCEPT ![q] = @ + 1]
            /\ ppc' = [ppc EXCEPT ![q] = "returned"]
            /\ client_lock' = 0
       ELSE /\ ppc' = [ppc EXCEPT ![q] = "sleep"]
            /\ UNCHANGED <<pdelivered, client_lock>>
  /\ UNCHANGED <<pwaits, pstart, connVars>>

\* PubSleep for a loop over 0..=5: one iteration too many
PubSleep_SixAttempts(q) ==
  /\ ppc[q] = "sleep"
  /\ client_lock = q
  /\ pwaits' = [pwaits EXCEPT ![q] = @ + 1]
  /\ client_lock' = 0
  /\ ppc' = [ppc EXCEPT ![q] = IF pattempt[q] > PublishAttempts THEN "returned" ELSE "lock"]
  /\ UNCHANGED <<pattempt, pdelivered, pstart, connVars>>

\* tokio::time::sleep(1 s) ended; the iteration ends and drops the guard;
\* after the fifth iteration the call logs the failure and returns
PubSleep(q) ==
  /\ ppc[q] = "sleep"
  /\ client_lock = q
  /\ pwaits' = [pwaits EXCEPT ![q] = @ + 1]
  /\ client_lock' = 0
  /\ ppc' = [ppc EXCEPT ![q] = IF pattempt[q] >= PublishAttempts THEN "returned" ELSE "lock"]
  /\ UNCHANGED <<pattempt, pdelivered, pstart, connVars>>

NextPublish ==
  \/ LoopCheck /\ UNCHANGED <<storeVars, handlerVars, pubVars, taskVars, auxVars>>
  \/ \E ok \in BOOLEAN : Configure(ok) /\ UNCHANGED <<storeVars, handlerVars, pubVars, taskVars, auxVars>>
  \/ InstallClient /\ UNCHANGED <<storeVars, handlerVars, pubVars, taskVars, auxVars>>
  \/ SetConnecting /\ UNCHANGED <<storeVars, handlerVars, pubVars, taskVars, auxVars>>
  \/ SubscribeOk /\ UNCHANGED <<storeVars, handlerVars, pubVars, taskVars, auxVars>>
  \/ \E e \in SubscribeErrors : SubscribeErr(e) /\ UNCHANGED <<storeVars, handlerVars, pubVars, taskVars, auxVars>>
  \/ SleepAfterSubscribeErr /\ UNCHANGED <<storeVars, handlerVars, pubVars, taskVars, auxVars>>
  \/ PollOk /\ UNCHANGED <<storeVars, handlerVars, pubVars, taskVars, auxVars>>
  \/ PollErr /\ UNCHANGED <<storeVars, handlerVars, pubVars, taskVars, auxVars>>
  \/ LostConnection /\ UNCHANGED <<storeVars, handlerVars, pubVars, taskVars, auxVars>>
  \/ SleepAfterLost /\ UNCHANGED <<storeVars, handlerVars, pubVars, taskVars, auxVars>>
  \/ \E q \in Publishers : PubCall(q) /\ UNCHANGED <<storeVars, handlerVars, taskVars, auxVars>>
  \/ \E q \in Publishers : PubLock(q) /\ UNCHANGED <<storeVars, handlerVars, taskVars, auxVars>>
  \/ \E q \in Publishers, ok \in BOOLEAN : PubSend(q, ok) /\ UNCHANGED <<storeVars, handlerVars, taskVars, auxVars>>
  \/ \E q \in Publishers : PubSleep(q) /\ UNCHANGED <<storeVars, handlerVars, taskVars, auxVars>>

\* ------------------------------------------------ the event dispatch
\* config.command_topic, the control topic the serve loop subscribes to; a
\* publish event may carry it like any other topic name
CommandTopic == "t2"

\* rumqttc events as handle_event distinguishes them
PublishEvents == [kind : {"publish"}, topic : TopicNames, value : Payloads]
Events == PublishEvents \cup {[kind |-> "connack", topic |-> "", value |-> ""],
                              [kind |-> "other", topic |-> "", value |-> ""]}

\* a spawned task: its event, its position (spawned, subscribing, done), its
\* outcome and the number of wildcard subscribe requests it has issued
NewTask(e) == [event |-> e, st |-> "spawned", outcome |-> "none", subs |-> 0]
Finished(i, o) == [tasks EXCEPT ![i].st = "done", ![i].outcome = o]
TaskIds == DOMAIN tasks

\* PollEvent that awaits handle_event inline instead of spawning a task
PollEvent_Inline(e) ==
  /\ \A i \in TaskIds : tasks[i].st = "done"
  /\ PollOk
  /\ Len(tasks) < MaxTasks
  /\ events' = Append(events, e)
  /\ tasks' = Append(tasks, NewTask(e))

\* eventloop.poll() returned Ok(event): tokio::spawn(handle_event(event))
PollEvent(e) ==
  /\ PollOk
  /\ Len(tasks) < MaxTasks
  /\ events' = Append(events, e)
  /\ tasks' = Append(tasks, NewTask(e))

\* handle_event, Publish arm: DatabaseService::new returned Err (logged)
TaskOpenFail(i) ==
  /\ tasks[i].st = "spawned"
  /\ tasks[i].event.kind = "publish"
  /\ tasks' = Finished(i, "open_failed")
  /\ UNCHANGED <<events, storeVars, connVars, client_lock>>

\* handle_event, Publish arm: insert_value returned Ok
TaskInsert(i) ==
  /\ tasks[i].st = "spawned"
  /\ tasks[i].event.kind = "publish"
  /\ InsertValue(tasks[i].event.topic, tasks[i].event.value)
  /\ tasks' = Finished(i, "ok")
  /\ UNCHANGED <<events, connVars, client_lock>>

\* TaskInsertFail that hands the failure to the connection loop
TaskInsertFail_Propagate(i) ==
  /\ tasks[i].st = "spawned"
  /\ tasks[i].event.kind = "publish"
  /\ tasks' = Finished(i, "insert_failed")
  /\ client_state' = ErrorState("insert failed")
  /\ UNCHANGED <<events, storeVars, client_lock, client, retries, retry_interval, pc,
                 exit_reason, sub_result, attempts, since_success, polled,
                 lost_since_ok, cfg>>

\* handle_event, Publish arm: insert_value returned Err (logged)
TaskInsertFail(i) ==
  /\ tasks[i].st = "spawned"
  /\ tasks[i].event.kind = "publish"
  /\ tasks' = Finished(i, "insert_failed")
  /\ UNCHANGED <<events, storeVars, connVars, client_lock>>

\* handle_event, ConnAck arm: self.client.lock().await; with a client the
\* subscribe("#", AtMostOnce) is issued while the guard is held
TaskConnAckLock(i) ==
  /\ tasks[i].st = "spawned"
  /\ tasks[i].event.kind = "connack"
  /\ client_lock = 0
  /\ IF client # 0
       THEN /\ client_lock' = -i
            /\ tasks' = [tasks EXCEPT ![i].st = "subscribing", ![i].subs = @ + 1]
       ELSE /\ tasks' = Finished(i, "ok")
            /\ UNCHANGED client_lock
  /\ UNCHANGED <<events, storeVars, connVars>>

\* handle_event, ConnAck arm: the subscribe returned Ok or Err (logged)
TaskConnAckSubscribed(i, ok) ==
  /\ tasks[i].st = "subscribing"
  /\ client_lock = -i
  /\ ok => EventLoopAlive
  /\ client_lock' = 0
  /\ tasks' = Finished(i, IF ok THEN "ok" ELSE "subscribe_failed")
  /\ UNCHANGED <<events, storeVars, connVars>>

\* handle_event, default arm: debug log
TaskOther(i) ==
  /\ tasks[i].st = "spawned"
  /\ tasks[i].event.kind = "other"
  /\ tasks' = Finished(i, "ok")
  /\ UNCHANGED <<events, storeVars, connVars, client_lock>>

NextDispatch ==
  \/ LoopCheck /\ UNCHANGED <<storeVars, handlerVars, pubVars, taskVars, auxVars>>
  \/ \E ok \in BOOLEAN : Configure(ok) /\ UNCHANGED <<storeVars, handlerVars, pubVars, taskVars, auxVars>>
  \/ InstallClient /\ UNCHANGED <<storeVars, handlerVars, pubVars, taskVars, auxVars>>
  \/ SetConnecting /\ UNCHANGED <<storeVars, handlerVars, pubVars, taskVars, auxVars>>
  \/ SubscribeOk /\ UNCHANGED <<storeVars, handlerVars, pubVars, taskVars, auxVars>>
  \/ \E e \in SubscribeErrors : SubscribeErr(e) /\ UNCHANGED <<storeVars, handlerVars, pubVars, taskVars, auxVars>>
  \/ SleepAfterSubscribeErr /\ UNCHANGED <<storeVars, handlerVars, pubVars, taskVars, auxVars>>
  \/ \E e \in Events : PollEvent(e) /\ UNCHANGED <<storeVars, handlerVars, pubVars, auxVars>>
  \/ PollErr /\ UNCHANGED <<storeVars, handlerVars, pubVars, taskVars, auxVars>>
  \/ LostConnection /\ UNCHANGED <<storeVars, handlerVars, pubVars, taskVars, auxVars>>
  \/ SleepAfterLost /\ UNCHANGED <<storeVars, handlerVars, pubVars, taskVars, auxVars>>
  \/ \E i \in TaskIds : TaskOpenFail(i) /\ UNCHANGED <<handlerVars, pubLocal, auxVars>>
  \/ \E i \in TaskIds : TaskInsert(i) /\ UNCHANGED <<handlerVars, pubLocal, auxVars>>
  \/ \E i \in TaskIds : TaskInsertFail(i) /\ UNCHANGED <<handlerVars, pubLocal, auxVars>>
  \/ \E i \in TaskIds : TaskConnAckLock(i) /\ UNCHANGED <<handlerVars, pubLocal, auxVars>>
  \/ \E i \in TaskIds, ok \in BOOLEAN : TaskConnAckSubscribed(i, ok) /\ UNCHANGED <<handlerVars, pubLocal, auxVars>>
  \/ \E i \in TaskIds : TaskOther(i) /\ UNCHANGED <<handlerVars, pubLocal, auxVars>>

\* --------------------------------------------------- the topic catalog
NoParent == "none"                       \* parent_topic: None
Parents == {NoParent} \cup TopicNames
Frequencies == {1000, 5000}
ColsFor(T) == {[topic |-> r.topic, parent_topic |-> NoParent, query_frequency_ms |-> 1000] : r \in T}

\* FOREIGN KEY (parent_topic) REFERENCES topics(topic): satisfied by no
\* parent, by the row itself, or by a registered parent
ParentKnown(t, p) == p = NoParent \/ p = t \/ SelectTopic(p) # {}

\* the completed call with its arguments and the rows it found in conflict
UpsertCall(t, p, n, f) ==
  [op |-> "add_or_update_topic", topic |-> t, limit |-> 0,
   parent_topic |-> p, max_values |-> n, query_frequency_ms |-> f,
   conflict |-> SelectTopic(t)]

\* AddOrUpdateTopic as a plain INSERT without the ON CONFLICT clause and
\* without the UNIQUE constraint
AddOrUpdateTopic_InsertOnly(t, p, n, f) ==
  /\ call' = UpsertCall(t, p, n, f)
  /\ result' = <<>>
  /\ status' = "Ok"
  /\ topics' = topics \cup {[topic |-> t, max_values |-> n]}
  /\ topic_cols' = topic_cols \cup {[topic |-> t, parent_topic |-> p, query_frequency_ms |-> f]}
  /\ UNCHANGED <<topic_values, next_id, clock, inserted>>

\* DatabaseService::add_or_update_topic: INSERT ... ON CONFLICT(topic) DO
\* UPDATE SET the three other columns. Whether SQLite enforces the foreign
\* key depends on how the library was built: with an unknown parent the
\* statement either succeeds or fails and leaves the table as it was.
AddOrUpdateTopic(t, p, n, f) ==
  /\ call' = UpsertCall(t, p, n, f)
  /\ result' = <<>>
  /\ \/ /\ status' = "Ok"
        /\ topics' = {r \in topics : r.topic # t} \cup {[topic |-> t, max_values |-> n]}
        /\ topic_cols' = {c \in topic_cols : c.topic # t}
                           \cup {[topic |-> t, parent_topic |-> p, query_frequency_ms |-> f]}
     \/ /\ ~ParentKnown(t, p)
        /\ status' = "Err"
        /\ UNCHANGED <<topics, topic_cols>>
  /\ UNCHANGED <<topic_values, next_id, clock, inserted>>

\* insert_value next to the upserts; it does not touch the other columns
CatalogInsert(t, v) ==
  /\ Len(inserted) < MaxCatalogInserts
  /\ InsertValue(t, v)
  /\ UNCHANGED topic_cols

NextCatalog ==
  \/ \E t \in TopicNames, p \in Parents, n \in 1..MaxN, f \in Frequencies : AddOrUpdateTopic(t, p, n, f) /\ UNCHANGED <<handlerVars, connVars, pubVars, taskVars, identVars, trackVars, queueVars>>
  \/ \E t \in TopicNames, v \in Payloads : CatalogInsert(t, v) /\ UNCHANGED <<handlerVars, connVars, pubVars, taskVars, identVars, trackVars, queueVars>>

\* ------------------------------------------------- the client identity
Prefixes == {"internal", "monitored"}
Uuids == {"u1", "u2"}
ClientIds == [prefix : Prefixes, uuid : Uuids]

\* start_mqtt_service: format!("{}_{}", client_id_prefix, Uuid::new_v4()),
\* once, before start is spawned
InitIdentity ==
  /\ mqtt_client_id \in ClientIds
  /\ used_ids = <<>>

\* the head of an attempt: MqttOptions::new(mqtt_client_id, host, port)
ConfigureAttempt(ok) ==
  /\ Configure(ok)
  /\ used_ids' = Append(used_ids, mqtt_client_id)
  /\ UNCHANGED mqtt_client_id

NextIdentity ==
  \/ LoopCheck /\ UNCHANGED <<storeVars, handlerVars, pubVars, taskVars, auxVars>>
  \/ \E ok \in BOOLEAN : ConfigureAttempt(ok) /\ UNCHANGED <<storeVars, handlerVars, pubVars, taskVars, catalogVars, trackVars, queueVars>>
  \/ InstallClient /\ UNCHANGED <<storeVars, handlerVars, pubVars, taskVars, auxVars>>
  \/ SetConnecting /\ UNCHANGED <<storeVars, handlerVars, pubVars, taskVars, auxVars>>
  \/ SubscribeOk /\ UNCHANGED <<storeVars, handlerVars, pubVars, taskVars, auxVars>>
  \/ \E e \in SubscribeErrors : SubscribeErr(e) /\ UNCHANGED <<storeVars, handlerVars, pubVars, taskVars, auxVars>>
  \/ SleepAfterSubscribeErr /\ UNCHANGED <<storeVars, handlerVars, pubVars, taskVars, auxVars>>
  \/ PollOk /\ UNCHANGED <<storeVars, handlerVars, pubVars, taskVars, auxVars>>
  \/ PollErr /\ UNCHANGED <<storeVars, handlerVars, pubVars, taskVars, auxVars>>
  \/ LostConnection /\ UNCHANGED <<storeVars, handlerVars, pubVars, taskVars, auxVars>>
  \/ SleepAfterLost /\ UNCHANGED <<storeVars, handlerVars, pubVars, taskVars, auxVars>>

\* ------------------------------------- publishes, handlers and readers
\* The serve loop polls publish events only; their handlers write to the
\* store while the clock runs and the REST readers query it.
NextOrder ==
  \/ LoopCheck /\ UNCHANGED <<storeVars, handlerVars, pubVars, taskVars, auxVars>>
  \/ \E ok \in BOOLEAN : Configure(ok) /\ UNCHANGED <<storeVars, handlerVars, pubVars, taskVars, auxVars>>
  \/ InstallClient /\ UNCHANGED <<storeVars, handlerVars, pubVars, taskVars, auxVars>>
  \/ SetConnecting /\ UNCHANGED <<storeVars, handlerVars, pubVars, taskVars, auxVars>>
  \/ SubscribeOk /\ UNCHANGED <<storeVars, handlerVars, pubVars, taskVars, auxVars>>
  \/ \E e \in SubscribeErrors : SubscribeErr(e) /\ UNCHANGED <<storeVars, handlerVars, pubVars, taskVars, auxVars>>
  \/ SleepAfterSubscribeErr /\ UNCHANGED <<storeVars, handlerVars, pubVars, taskVars, auxVars>>
  \/ \E e \in PublishEvents : PollEvent(e) /\ UNCHANGED <<storeVars, handlerVars, pubVars, auxVars>>
  \/ PollErr /\ UNCHANGED <<storeVars, handlerVars, pubVars, taskVars, auxVars>>
  \/ LostConnection /\ UNCHANGED <<storeVars, handlerVars, pubVars, taskVars, auxVars>>
  \/ SleepAfterLost /\ UNCHANGED <<storeVars, handlerVars, pubVars, taskVars, auxVars>>
  \/ \E i \in TaskIds : TaskOpenFail(i) /\ UNCHANGED <<handlerVars, pubLocal, auxVars>>
  \/ \E i \in TaskIds : TaskInsert(i) /\ UNCHANGED <<handlerVars, pubLocal, auxVars>>
  \/ \E i \in TaskIds : TaskInsertFail(i) /\ UNCHANGED <<handlerVars, pubLocal, auxVars>>
  \/ Tick /\ UNCHANGED <<handlerVars, connVars, pubVars, taskVars, auxVars>>
  \/ \E t \in TopicNames, l \in Limits : GetLastValues(t, l) /\ UNCHANGED <<handlerVars, connVars, pubVars, taskVars, auxVars>>
  \/ \E t \in TopicNames : GetLastValue(t) /\ UNCHANGED <<handlerVars, connVars, pubVars, taskVars, auxVars>>

\* -------------------------------------------------- the request channel
\* AsyncClient::new(mqtt_options, 10): client.subscribe and client.publish
\* send into a channel of this capacity and wait while it is full; only
\* eventloop.poll() takes requests out; a send fails once the event loop
\* (the receiver) has been dropped.
RequestCap == 10

\* AsyncClient::new creates an empty channel with the new client
QInstallClient ==
  /\ InstallClient
  /\ queue' = 0

\* client.subscribe(control_topic, AtLeastOnce).await of the serve loop, for
\* a valid control topic: completes when the channel has room
QSubscribe ==
  /\ queue < RequestCap
  /\ SubscribeOk
  /\ queue' = queue + 1

\* eventloop.poll() takes the next request out of the channel; the event it
\* returns goes to the default arm of handle_event
PollRequest ==
  /\ pc = "poll"
  /\ queue > 0
  /\ queue' = queue - 1
  /\ UNCHANGED connVars

\* client.publish(...).await for a valid topic: Ok when the channel has room,
\* Err when the event loop has been dropped, waiting otherwise
QPubSend(q, ok) ==
  /\ PubSend(q, ok)
  /\ IF ok THEN queue < RequestCap /\ queue' = queue + 1
           ELSE ~EventLoopAlive /\ UNCHANGED queue

\* periodic_status_update: the call has returned, the loop calls again
PubAgain(q) ==
  /\ ppc[q] = "returned"
  /\ ppc' = [ppc EXCEPT ![q] = "idle"]
  /\ pattempt' = [pattempt EXCEPT ![q] = 0]
  /\ pwaits' = [pwaits EXCEPT ![q] = 0]
  /\ pdelivered' = [pdelivered EXCEPT ![q] = 0]
  /\ pstart' = [pstart EXCEPT ![q] = "none"]
  /\ UNCHANGED <<client_lock, connVars>>

NextQueue ==
  \/ LoopCheck /\ UNCHANGED <<storeVars, handlerVars, pubVars, taskVars, auxVars>>
  \/ \E ok \in BOOLEAN : Configure(ok) /\ UNCHANGED <<storeVars, handlerVars, pubVars, taskVars, auxVars>>
  \/ QInstallClient /\ UNCHANGED <<storeVars, handlerVars, pubVars, taskVars, catalogVars, identVars, trackVars>>
  \/ SetConnecting /\ UNCHANGED <<storeVars, handlerVars, pubVars, taskVars, auxVars>>
  \/ QSubscribe /\ UNCHANGED <<storeVars, handlerVars, pubVars, taskVars, catalogVars, identVars, trackVars>>
  \/ PollRequest /\ UNCHANGED <<storeVars, handlerVars, connVars, pubVars, taskVars, catalogVars, identVars, trackVars>>
  \/ PollErr /\ UNCHANGED <<storeVars, handlerVars, pubVars, taskVars, auxVars>>
  \/ LostConnection /\ UNCHANGED <<storeVars, handlerVars, pubVars, taskVars, auxVars>>
  \/ SleepAfterLost /\ UNCHANGED <<storeVars, handlerVars, pubVars, taskVars, auxVars>>
  \/ \E q \in Publishers : PubCall(q) /\ UNCHANGED <<storeVars, handlerVars, taskVars, auxVars>>
  \/ \E q \in Publishers : PubLock(q) /\ UNCHANGED <<storeVars, handlerVars, taskVars, auxVars>>
  \/ \E q \in Publishers, ok \in BOOLEAN : QPubSend(q, ok) /\ UNCHANGED <<storeVars, handlerVars, taskVars, catalogVars, identVars, trackVars>>
  \/ \E q \in Publishers : PubSleep(q) /\ UNCHANGED <<storeVars, handlerVars, taskVars, auxVars>>
  \/ \E q \in Publishers : PubAgain(q) /\ UNCHANGED <<storeVars, handlerVars, taskVars, auxVars>>

\* ------------------------------------------------ an unreachable broker
\* No packet ever arrives: client.subscribe only queues its request and
\* returns Ok, and the first poll of every attempt returns an I/O error.
NextUnreachable ==
  \/ LoopCheck /\ UNCHANGED <<storeVars, handlerVars, pubVars, taskVars, auxVars>>
  \/ \E ok \in BOOLEAN : Configure(ok) /\ UNCHANGED <<storeVars, handlerVars, pubVars, taskVars, auxVars>>
  \/ InstallClient /\ UNCHANGED <<storeVars, handlerVars, pubVars, taskVars, auxVars>>
  \/ SetConnecting /\ UNCHANGED <<storeVars, handlerVars, pubVars, taskVars, auxVars>>
  \/ SubscribeOk /\ UNCHANGED <<storeVars, handlerVars, pubVars, taskVars, auxVars>>
  \/ PollErr /\ UNCHANGED <<storeVars, handlerVars, pubVars, taskVars, auxVars>>
  \/ LostConnection /\ UNCHANGED <<storeVars, handlerVars, pubVars, taskVars, auxVars>>
  \/ SleepAfterLost /\ UNCHANGED <<storeVars, handlerVars, pubVars, taskVars, auxVars>>

\* ------------------------------------------------ the progress tracker
Updates == 1..NumUpdates
TotalSizes == {0, 200}
ByteCounts == {0, 50}

\* a percentage as the {:.2} format prints it: a number in hundredths of a
\* percent, or the text NaN or inf of a non-finite f64
Num(c) == [kind |-> "num", centi |-> c]
NaN == [kind |-> "NaN", centi |-> 0]
Infinity == [kind |-> "inf", centi |-> 0]
Hundredths(uploaded, total) == (uploaded * 20000 + total) \div (2 * total)

\* update_progress: if total_size > 0 { uploaded / total * 100.0 } else { 0.0 }
LoggedPercentage(uploaded, total) ==
  IF total > 0 THEN Num(Hundredths(uploaded, total)) ELSE Num(0)

\* publish_progress: (progress as f64 / total as f64) * 100.0, no test of
\* total; 0.0 / 0.0 is NaN and x / 0.0 is inf for x > 0
PublishedPercentage(progress, total) ==
  IF total # 0 THEN Num(Hundredths(progress, total))
  ELSE IF progress = 0 THEN NaN ELSE Infinity

\* the JSON message publish_progress hands to publish_message
ProgressMessage(progress, total) ==
  [progress |-> progress, total |-> total,
   percentage |-> PublishedPercentage(progress, total)]

IdleUpdate == [pc |-> "idle", bytes |-> 0, after_stop |-> FALSE, logged |-> Num(0)]

\* ProgressTracker::new
InitTracker ==
  /\ total_size \in TotalSizes
  /\ uploaded_size = 0
  /\ cancelled = FALSE
  /\ uploaded_lock = 0
  /\ upd = [u \in Updates |-> IdleUpdate]
  /\ spc = "idle"
  /\ progress_msgs = <<>>

\* UpdCheck without the is_cancelled test
UpdCheck_NoCancelTest(u, b) ==
  /\ upd[u].pc = "idle"
  /\ upd' = [upd EXCEPT ![u] = [pc |-> "lock", bytes |-> b,
                                after_stop |-> spc = "returned", logged |-> Num(0)]]
  /\ UNCHANGED <<total_size, uploaded_size, cancelled, uploaded_lock, spc, progress_msgs>>

\* update_progress(b) starts: if self.is_cancelled() { return; }
UpdCheck(u, b) ==
  /\ upd[u].pc = "idle"
  /\ upd' = [upd EXCEPT ![u] = [pc |-> IF cancelled THEN "returned" ELSE "lock",
                                bytes |-> b, after_stop |-> spc = "returned",
                                logged |-> Num(0)]]
  /\ UNCHANGED <<total_size, uploaded_size, cancelled, uploaded_lock, spc, progress_msgs>>

\* self.uploaded_size.lock().await
UpdLock(u) ==
  /\ upd[u].pc = "lock"
  /\ uploaded_lock = 0
  /\ uploaded_lock' = u
  /\ upd' = [upd EXCEPT ![u].pc = "locked"]
  /\ UNCHANGED <<total_size, uploaded_size, cancelled, spc, progress_msgs>>

\* *uploaded_size += bytes_uploaded, the logged percentage, and
\* publish_progress(*uploaded_size, total_size); the guard drops at return
UpdApply(u) ==
  /\ upd[u].pc = "locked"
  /\ uploaded_lock = u
  /\ uploaded_size' = uploaded_size + upd[u].bytes
  /\ upd' = [upd EXCEPT ![u].pc = "returned",
                        ![u].logged = LoggedPercentage(uploaded_size', total_size)]
  /\ progress_msgs' = Append(progress_msgs, ProgressMessage(uploaded_size', total_size))
  /\ uploaded_lock' = 0
  /\ UNCHANGED <<total_size, cancelled, spc>>

\* stop: self.cancelled.store(true, SeqCst)
StopStore ==
  /\ spc = "idle"
  /\ cancelled' = TRUE
  /\ spc' = "stored"
  /\ UNCHANGED <<total_size, uploaded_size, uploaded_lock, upd, progress_msgs>>

\* stop: publish_progress(mqtt_service, 0, 0), then return
StopPublish ==
  /\ spc = "stored"
  /\ progress_msgs' = Append(progress_msgs, ProgressMessage(0, 0))
  /\ spc' = "returned"
  /\ UNCHANGED <<total_size, uploaded_size, cancelled, uploaded_lock, upd>>

NextTracker ==
  \/ \E u \in Updates, b \in ByteCounts : UpdCheck(u, b) /\ UNCHANGED <<storeVars, handlerVars, connVars, pubVars, taskVars, catalogVars, identVars, queueVars>>
  \/ \E u \in Updates : UpdLock(u) /\ UNCHANGED <<storeVars, handlerVars, connVars, pubVars, taskVars, catalogVars, identVars, queueVars>>
  \/ \E u \in Updates : UpdApply(u) /\ UNCHANGED <<storeVars, handlerVars, connVars, pubVars, taskVars, catalogVars, identVars, queueVars>>
  \/ StopStore /\ UNCHANGED <<storeVars, handlerVars, connVars, pubVars, taskVars, catalogVars, identVars, queueVars>>
  \/ StopPublish /\ UNCHANGED <<storeVars, handlerVars, connVars, pubVars, taskVars, catalogVars, identVars, queueVars>>

\* ----------------------------------------------------- specifications
\* In each specification the parts it does not exercise stay in one fixed
\* initial state.
IdleStore ==
  /\ topics = {}
  /\ topic_values = {}
  /\ next_id = 1
  /\ clock = 0
  /\ inserted = <<>>
  /\ call = [op |-> "none", topic |-> "", limit |-> 0]
  /\ status = "none"
  /\ result = <<>>

IdleConn ==
  /\ cfg = [max_retries |-> -1, retry_interval_ms |-> 100, ssl |-> "off"]
  /\ client_state = State("Disconnected")
  /\ client = 0
  /\ retries = 0
  /\ retry_interval = 100
  /\ pc = "top"
  /\ exit_reason = "none"
  /\ sub_result = "none"
  /\ attempts = 0
  /\ since_success = 0
  /\ polled = 0
  /\ lost_since_ok = FALSE

IdleTasks == events = <<>> /\ tasks = <<>>

IdleCatalog == topic_cols = ColsFor(topics)

IdleIdentity ==
  /\ mqtt_client_id = [prefix |-> "monitored", uuid |-> "u1"]
  /\ used_ids = <<>>

IdleTracker ==
  /\ total_size = 0
  /\ uploaded_size = 0
  /\ cancelled = FALSE
  /\ uploaded_lock = 0
  /\ upd = [u \in Updates |-> IdleUpdate]
  /\ spc = "idle"
  /\ progress_msgs = <<>>

IdleQueue == queue = 0

IdleAux == IdleCatalog /\ IdleIdentity /\ IdleTracker /\ IdleQueue

InitStoreSpec == InitStore /\ InitHandlers /\ IdleConn /\ InitPublish /\ IdleTasks /\ IdleAux
InitHandlersSpec == InitStore /\ InitHandlers /\ IdleConn /\ InitPublish /\ IdleTasks /\ IdleAux
InitConnSpec == IdleStore /\ InitHandlers /\ InitConn /\ InitPublish /\ IdleTasks /\ IdleAux

\* publish_message next to a serve loop with a retry budget of one attempt:
\* the client handle is absent, then live, then stale
PublishConfigs == {c \in Configs : c.max_retries = 1 /\ c.retry_interval_ms = 100}
InitPublishSpec ==
  IdleStore /\ InitHandlers /\ InitConn /\ cfg \in PublishConfigs /\ InitPublish /\ IdleTasks
  /\ IdleAux

\* the dispatch next to a serve loop with a budget of two attempts and a
\* store in which t1 is registered and t2 is not
DispatchConfig == [max_retries |-> 2, retry_interval_ms |-> 100, ssl |-> "off"]
InitDispatchSpec ==
  /\ InitStore /\ topics = {[topic |-> "t1", max_values |-> 1]}
  /\ InitHandlers
  /\ InitConn /\ cfg = DispatchConfig
  /\ InitPublish
  /\ IdleTasks
  /\ IdleCatalog
  /\ InitIdentity /\ mqtt_client_id.uuid = "u1"
  /\ IdleTracker
  /\ IdleQueue

\* one attempt of the serve loop and a store in which t1 keeps MaxN values
OrderConfig == [max_retries |-> 1, retry_interval_ms |-> 100, ssl |-> "off"]
InitOrderSpec ==
  /\ InitStore /\ topics = {[topic |-> "t1", max_values |-> MaxN]}
  /\ InitHandlers
  /\ InitConn /\ cfg = OrderConfig
  /\ InitPublish
  /\ IdleTasks
  /\ IdleAux

\* a serve loop with a budget of two attempts next to the publishers
QueueConfig == [max_retries |-> 2, retry_interval_ms |-> 100, ssl |-> "off"]
InitQueueSpec ==
  /\ IdleStore /\ InitHandlers
  /\ InitConn /\ cfg = QueueConfig
  /\ InitPublish /\ IdleTasks /\ IdleAux

InitTrackerSpec ==
  /\ IdleStore /\ InitHandlers /\ IdleConn /\ InitPublish /\ IdleTasks
  /\ IdleCatalog /\ IdleIdentity /\ InitTracker /\ IdleQueue

InitCatalogSpec ==
  /\ InitStore /\ InitHandlers /\ IdleConn /\ InitPublish /\ IdleTasks
  /\ IdleCatalog /\ IdleIdentity /\ IdleTracker /\ IdleQueue

InitIdentitySpec ==
  /\ IdleStore /\ InitHandlers /\ InitConn /\ InitPublish /\ IdleTasks
  /\ IdleCatalog /\ InitIdentity /\ IdleTracker /\ IdleQueue

SpecStore == InitStoreSpec /\ [][NextStore]_vars
SpecHandlers == InitHandlersSpec /\ [][NextHandlers]_vars
SpecPublish == InitPublishSpec /\ [][NextPublish]_vars

SpecDispatch == InitDispatchSpec /\ [][NextDispatch]_vars
SpecTracker == InitTrackerSpec /\ [][NextTracker]_vars
SpecCatalog == InitCatalogSpec /\ [][NextCatalog]_vars
SpecIdentity == InitIdentitySpec /\ [][NextIdentity]_vars
SpecOrder == InitOrderSpec /\ [][NextOrder]_vars
\* Fair scheduling: every step of the serve loop and of a publisher that
\* stays possible is taken, the client Mutex is granted to every waiter
\* that keeps asking (strong fairness), the event loop is polled while the
\* connection lasts. Poll errors and new publish calls are not forced.
pubFlat == <<client_lock, ppc, pattempt, pwaits, pdelivered, pstart>>
QueueFairness ==
  /\ WF_connVars(LoopCheck)
  /\ WF_connVars(\E ok \in BOOLEAN : Configure(ok))
  /\ SF_connVars(QInstallClient)
  /\ WF_connVars(SetConnecting)
  /\ WF_connVars(QSubscribe)
  /\ WF_queue(PollRequest)
  /\ WF_connVars(LostConnection)
  /\ WF_connVars(SleepAfterLost)
  /\ \A q \in Publishers :
       /\ SF_pubFlat(PubLock(q))
       /\ WF_pubFlat(\E ok \in BOOLEAN : QPubSend(q, ok))
       /\ WF_pubFlat(PubSleep(q))
SpecQueue == InitQueueSpec /\ [][NextQueue]_vars /\ QueueFairness
SpecUnreachable == InitConnSpec /\ [][NextUnreachable]_vars

\* The serve loop is one spawned task: the runtime schedules it again after
\* every await, and every sleep ends.
ConnFairness ==
  /\ WF_connVars(LoopCheck)
  /\ WF_connVars(\E ok \in BOOLEAN : Configure(ok))
  /\ WF_connVars(InstallClient)
  /\ WF_connVars(SetConnecting)
  /\ WF_connVars(SleepAfterSubscribeErr)
  /\ WF_connVars(LostConnection)
  /\ WF_connVars(SleepAfterLost)
SpecConnFair == InitConnSpec /\ [][NextConn]_vars /\ ConnFairness
SpecConn == InitConnSpec /\ [][NextConn]_vars

\* ------------------------------------------------------------ properties
RECURSIVE SelectTopicSeq(_, _)
\* the entries of the sequence s that belong to topic t, in order
SelectTopicSeq(s, t) ==
  IF s = <<>> THEN <<>>
  ELSE IF Head(s).topic = t THEN <<Head(s)>> \o SelectTopicSeq(Tail(s), t)
  ELSE SelectTopicSeq(Tail(s), t)

InsertsMade(t) == Len(SelectTopicSeq(inserted, t))
Evicted(t) == {r \in {inserted[i] : i \in DOMAIN inserted} : r.topic = t /\ r \notin topic_values}
Values(s) == [i \in DOMAIN s |-> s[i][1]]
\* the last n entries of s, last entry first
NewestFirst(s, n) == [i \in 1..Min(n, Len(s)) |-> s[Len(s) + 1 - i].value]

C2_NewestFirst ==
  \A row \in topics :
    (call.op = "get_last_values" /\ call.topic = row.topic /\ call.limit >= row.max_values)
      => Values(result) = NewestFirst(SelectTopicSeq(inserted, row.topic), row.max_values)

\* C3: no handler executes its INSERT or its DELETE between the INSERT and
\* the DELETE of another handler's insert_value call.
C3_AtomicInsertTrim ==
  \A p, q \in Handlers : (hpc[p] = "inserted" /\ hpc[q] = "inserted") => p = q

\* C4: in every state a reader can observe, a topic stores at most
\* max_values rows, and get_last_values returns at most max_values rows.
ReaderCanObserve == ~conn_lock[0]
C4_AtMostMaxValues ==
  \A row \in topics :
    /\ ReaderCanObserve => Cardinality(RowsOf(row.topic)) <= row.max_values
    /\ (call.op = "get_last_values" /\ call.topic = row.topic) => Len(result) <= row.max_values

\* C5: insert_value for an unregistered topic returns Ok and changes neither
\* table, and get_last_value for an unregistered topic returns none.
C5_UnregisteredStep ==
  (call'.op = "insert_value" /\ SelectTopic(call'.topic) = {})
    => /\ status' = "Ok"
       /\ topics' = topics
       /\ topic_values' = topic_values
       /\ next_id' = next_id
       /\ \A r \in topic_values' : r.topic # call'.topic
C5_UnregisteredNone ==
  (call.op = "get_last_value" /\ SelectTopic(call.topic) = {}) => result = <<>>
C5_UnregisteredInsert == [][C5_UnregisteredStep]_vars /\ []C5_UnregisteredNone

C5_Witness ==
  /\ call.op = "insert_value"
  /\ SelectTopic(call.topic) = {}
  /\ status = "Ok"
  /\ topic_values # {}

\* C6: the state is Connected only when the control-topic subscribe of the
\* current attempt has returned Ok.
C6_ConnectedAfterSubscribe == client_state.tag = "Connected" => sub_result = "ok"

C6_Witness == client_state.tag = "Connected" /\ attempts = 2 /\ retries = 1

\* C7: with a positive max-retries value M the loop, once it has left for
\* the retry budget, has made exactly M attempts, and it makes no further
\* attempt after it has left.
C7_BudgetInv == (cfg.max_retries > 0 /\ exit_reason = "retries") => attempts = cfg.max_retries
C7_ExitedStep == pc = "exited" => (pc' = "exited" /\ attempts' = attempts /\ client' = client)
C7_ExactlyMAttempts == []C7_BudgetInv /\ [][C7_ExitedStep]_vars

C7_Witness == exit_reason = "retries" /\ cfg.max_retries = 3 /\ attempts = 3

\* C8: with a positive max-retries value M the loop leaves for the retry
\* budget exactly when M failures have occurred since the last successful
\* subscribe.
C8_ConsecutiveFailures ==
  (cfg.max_retries > 0 /\ exit_reason = "retries") => since_success = cfg.max_retries

\* C9: with a max-retries value that is zero or negative the loop never
\* leaves for the retry budget; a TLS error is the only reason to leave.
C9_UnlimitedRetries == (cfg.max_retries <= 0 /\ pc = "exited") => exit_reason = "tls"

C9_Witness == cfg.max_retries = 0 /\ retries = 3 /\ pc = "new_client"

\* C10: the connection state starts as Disconnected and changes only along
\* Disconnected -> Connecting, Connecting -> Connected, Connecting -> Error,
\* Error -> Connecting and Connected -> Disconnected.
AllowedTransitions ==
  { <<"Disconnected", "Connecting">>, <<"Connecting", "Connected">>,
    <<"Connecting", "Error">>, <<"Error", "Connecting">>,
    <<"Connected", "Disconnected">> }
C10_Step ==
  client_state' # client_state => <<client_state.tag, client_state'.tag>> \in AllowedTransitions
C10_StateMachine == client_state.tag = "Disconnected" /\ [][C10_Step]_vars

C10_Witness == client_state.tag = "Connecting" /\ retries = 2 /\ attempts = 3

Sleeping == pc \in {"sleep_sub", "sleep_lost"}

\* C11: the sleep after a failed subscribe and after a lost connection is
\* followed by retry_interval = min(2 x previous, 60 s), a successful
\* subscribe sets it to the configured base, and no other step changes it.
C11_Step ==
  /\ (Sleeping /\ pc' # pc) => retry_interval' = Min(2 * retry_interval, 60000)
  /\ (pc = "subscribe" /\ sub_result' = "ok") => retry_interval' = cfg.retry_interval_ms
  /\ retry_interval' # retry_interval
       => ((Sleeping /\ pc' = "top") \/ (pc = "subscribe" /\ sub_result' = "ok"))
C11_IntervalUpdates == [][C11_Step]_vars

C11_Witness == retry_interval = 60000 /\ cfg.retry_interval_ms = 40000 /\ retries = 1

\* C12: every wait between two connection attempts lasts at most 60 s.
C12_WaitAtMost60s == Sleeping => retry_interval <= 60000

\* C13: from a lost connection until the next successful subscribe the
\* retry interval never decreases.
C13_Step == (lost_since_ok /\ lost_since_ok') => retry_interval' >= retry_interval
C13_NonDecreasing == [][C13_Step]_vars

\* C14: a TLS configuration error (no certificate path, unreadable file)
\* ends the loop in that iteration: no client is created, the state, the
\* retries and the interval stay as they are, and no attempt follows.
C14_Step ==
  /\ pc = "configure" =>
       /\ pc' \in {"configure", "exited", "new_client"}
       /\ cfg.ssl = "no_path" => pc' # "new_client"
       /\ pc' = "exited" =>
            /\ exit_reason' = "tls" /\ cfg.ssl # "off"
            /\ attempts' = attempts /\ client' = client
            /\ client_state' = client_state
            /\ retries' = retries /\ retry_interval' = retry_interval
  /\ exit_reason = "tls" =>
       (pc' = "exited" /\ attempts' = attempts /\ client_state' = client_state)
C14_NoPathInv ==
  cfg.ssl = "no_path" =>
    (attempts = 0 /\ client = 0 /\ retries = 0 /\ client_state.tag = "Disconnected"
     /\ pc \in {"top", "configure", "exited"})
C14_TlsFatal == [][C14_Step]_vars /\ []C14_NoPathInv

C14_Witness == exit_reason = "tls" /\ cfg.ssl = "path" /\ attempts = 2 /\ pc = "exited"

\* C15: a failed control-topic subscribe makes the state Error, adds one to
\* retries, is followed by a sleep of the unchanged retry interval, and the
\* event loop of that attempt is never polled.
C15_Step ==
  /\ (pc = "subscribe" /\ sub_result' = "err") =>
       /\ client_state'.tag = "Error"
       /\ retries' = retries + 1
       /\ retry_interval' = retry_interval
       /\ pc' = "sleep_sub"
  /\ (pc = "sleep_sub" /\ pc' # pc) => (pc' = "top" /\ polled' = 0)
C15_Inv ==
  sub_result = "err" =>
    /\ polled = 0
    /\ client_state.tag = "Error"
    /\ pc \in {"sleep_sub", "top", "configure", "new_client", "exited"}
C15_SubscribeFailure == [][C15_Step]_vars /\ []C15_Inv

C15_Witness == sub_result = "err" /\ pc = "new_client" /\ retries = 2

\* C16: a poll error while Connected makes the state Disconnected, and it is
\* followed by a new attempt (Connecting) unless the loop leaves for the
\* retry budget or for a TLS error (or the attempts bound is reached).
C16_Step ==
  (pc = "poll" /\ pc' # "poll") =>
    (client_state.tag = "Connected" /\ client_state'.tag = "Disconnected" /\ pc' = "lost")
C16_Follows ==
  (pc = "lost") ~>
    \/ client_state.tag = "Connecting"
    \/ (pc = "exited" /\ exit_reason \in {"retries", "tls"})
    \/ (pc = "configure" /\ attempts = MaxAttempts)
C16_Reconnect == [][C16_Step]_vars /\ C16_Follows

C16_Witness == client_state.tag = "Connecting" /\ lost_since_ok /\ attempts = 2

\* C20: one publish_message call makes at most 5 delivery attempts and stops
\* at the first that succeeds; when all fail (also with no client handle) it
\* makes exactly 5, sleeps 1 second after each, and then returns.
C20_BoundedPublish ==
  \A q \in Publishers :
    /\ pattempt[q] <= 5
    /\ pdelivered[q] <= 1
    /\ pdelivered[q] = 1 => (ppc[q] = "returned" /\ pwaits[q] = pattempt[q] - 1)
    /\ (ppc[q] = "returned" /\ pdelivered[q] = 0) => (pattempt[q] = 5 /\ pwaits[q] = 5)
    /\ (ppc[q] \in {"lock", "send"}) => (pattempt[q] < 5 /\ pwaits[q] = pattempt[q])
    /\ ppc[q] = "sleep" => pwaits[q] = pattempt[q] - 1

C20_Witness ==
  \E q \in Publishers :
    ppc[q] = "returned" /\ pdelivered[q] = 0 /\ pattempt[q] = 5 /\ pwaits[q] = 5 /\ client = 0

\* C17: a publish on the control topic is not passed to insert_value.
C17_ControlNotStored ==
  /\ \A p \in Handlers : hpc[p] \in {"selected", "inserted"} => htopic[p] # CommandTopic
  /\ call.op = "insert_value" => call.topic # CommandTopic

\* C18: every polled event has exactly one handler task, the tasks are in
\* poll order, and the next poll never waits for a handler to finish.
PollPossible == pc = "poll" /\ polled < MaxPolled /\ Len(tasks) < MaxTasks
C18_Dispatch ==
  /\ Len(tasks) = Len(events)
  /\ \A i \in TaskIds : tasks[i].event = events[i]
  /\ PollPossible => ENABLED (\E e \in Events : PollEvent(e))

C18_Witness ==
  Len(tasks) = 2 /\ tasks[1].st # "done" /\ tasks[2].st = "done" /\ events[1] # events[2]

\* C19: no step of a handler changes the connection state, retries, the
\* retry interval or the position of the serve loop, whatever its outcome;
\* the state leaves Connected only at a poll error, for Disconnected.
HandlerStep == tasks' # tasks /\ Len(tasks') = Len(tasks)
C19_Step ==
  /\ HandlerStep => UNCHANGED connVars
  /\ (client_state.tag = "Connected" /\ client_state'.tag # "Connected")
       => (pc = "poll" /\ pc' = "lost" /\ client_state'.tag = "Disconnected")
C19_HandlerIsolation == [][C19_Step]_vars

C19_Witness ==
  /\ Len(tasks) = 2
  /\ tasks[1].outcome \in {"open_failed", "insert_failed", "subscribe_failed"}
  /\ tasks[2].outcome = "ok"
  /\ pc = "poll" /\ client_state.tag = "Connected"

\* C21: an update_progress call that starts after stop() has returned leaves
\* uploaded_size unchanged and publishes no progress message.
C21_Step ==
  \A u \in Updates :
    (upd'[u] # upd[u] /\ upd'[u].after_stop)
      => (uploaded_size' = uploaded_size /\ progress_msgs' = progress_msgs)
C21_Inv == \A u \in Updates : upd[u].after_stop => upd[u].pc = "returned"
C21_NoOpAfterStop == [][C21_Step]_vars /\ []C21_Inv

C21_Witness ==
  /\ total_size = 200 /\ uploaded_size = 50 /\ spc = "returned"
  /\ upd[1].pc = "returned" /\ upd[1].bytes = 50 /\ ~upd[1].after_stop
  /\ upd[2].pc = "returned" /\ upd[2].bytes = 50 /\ upd[2].after_stop

\* C22: once cancelled is set, uploaded_size never changes again and the
\* only progress message still published is the (0, 0) report of stop().
C22_Step ==
  cancelled =>
    /\ uploaded_size' = uploaded_size
    /\ progress_msgs' # progress_msgs
         => progress_msgs' = Append(progress_msgs, ProgressMessage(0, 0))
C22_CancelledFreezes == [][C22_Step]_vars

\* C23: after a successful add_or_update_topic exactly one topic row has
\* that name and it holds the arguments of the call; a repeated identical
\* upsert leaves the tables unchanged.
RowsNamed(t) == {c \in topic_cols : c.topic = t}
UpsertArgs(c) == <<c.topic, c.parent_topic, c.max_values, c.query_frequency_ms>>
UpsertOk(c, st) == c.op = "add_or_update_topic" /\ st = "Ok"
C23_Inv ==
  UpsertOk(call, status) =>
    /\ SelectTopic(call.topic) = {[topic |-> call.topic, max_values |-> call.max_values]}
    /\ RowsNamed(call.topic) = {[topic |-> call.topic, parent_topic |-> call.parent_topic,
                                 query_frequency_ms |-> call.query_frequency_ms]}
C23_Step ==
  (UpsertOk(call, status) /\ UpsertOk(call', status') /\ UpsertArgs(call') = UpsertArgs(call))
    => UNCHANGED <<topics, topic_cols, topic_values>>
C23_Upsert == [][C23_Step]_vars /\ []C23_Inv

C23_Witness ==
  /\ UpsertOk(call, status)
  /\ call.topic = "t1" /\ call.max_values = 2
  /\ call.conflict = {[topic |-> "t1", max_values |-> 1]}
  /\ topic_values # {}

\* C24: get_last_value returns Ok(None) for a topic that is not registered
\* or has no stored value, and otherwise Ok(Some(row)) for a stored row of
\* the topic with the greatest timestamp.
C24_LastValue ==
  call.op = "get_last_value" =>
    /\ status = "Ok"
    /\ IF SelectTopic(call.topic) = {} \/ RowsOf(call.topic) = {}
         THEN result = <<>>
         ELSE /\ Len(result) = 1
              /\ \E r \in RowsOf(call.topic) :
                   /\ result[1] = <<r.value, r.ts>>
                   /\ \A o \in RowsOf(call.topic) : r.ts >= o.ts

C24_Witness ==
  /\ call.op = "get_last_value"
  /\ \E r, o \in RowsOf(call.topic) : r.ts > o.ts /\ result = <<(<<r.value, r.ts>>)>>

\* C25: no two connection attempts of one manager use the same client
\* identity.
C25_FreshIdentity == IsInjective(used_ids)

\* C26: every progress report of a task whose total is 0 carries the
\* percentage 0, in update_progress and in the published message.
C26_ZeroTotal ==
  /\ \A i \in DOMAIN progress_msgs :
       progress_msgs[i].total = 0 => progress_msgs[i].percentage = Num(0)
  /\ \A u \in Updates :
       (upd[u].pc = "returned" /\ total_size = 0) => upd[u].logged = Num(0)

\* C27: no task holds the client handle lock while it is suspended in a
\* publish, in its retry sleep or in the wildcard subscribe.
C27_NoLockAcrossAwait ==
  /\ \A q \in Publishers : ppc[q] \in {"send", "sleep"} => client_lock # q
  /\ \A i \in TaskIds : tasks[i].st = "subscribing" => client_lock # -i

\* C28: a handled connection-acknowledged event causes at most one wildcard
\* subscribe, and only on the monitoring connection.
C28_WildcardOnMonitoring ==
  \A i \in TaskIds :
    /\ tasks[i].subs <= 1
    /\ tasks[i].subs > 0 => mqtt_client_id.prefix = "monitored"

\* C29: whenever the state is Connected, the event loop of the current
\* attempt has returned a connection-acknowledged event.
PolledNow == {i \in DOMAIN events : i > Len(events) - polled}
C29_ConnectedMeansAcked ==
  client_state.tag = "Connected" => \E i \in PolledNow : events[i].kind = "connack"

\* C30: with an unreachable broker and a base interval of at most 60
\* seconds, the k-th consecutive wait lasts min(base x 2^(k-1), 60 seconds).
RECURSIVE Pow2(_)
Pow2(k) == IF k <= 0 THEN 1 ELSE 2 * Pow2(k - 1)
C30_GrowingWaits ==
  (pc = "sleep_lost" /\ cfg.retry_interval_ms <= MaxIntervalMs)
    => retry_interval = Min(cfg.retry_interval_ms * Pow2(retries - 1), MaxIntervalMs)

\* C31: once the serve loop has exited the connection state is Disconnected
\* or Error and never changes again; a publish_message call made after the
\* exit delivers nothing and returns after exactly 5 attempts.
AfterExit(q) == pstart[q] = "exited"
C31_Inv ==
  /\ pc = "exited" => client_state.tag \in {"Disconnected", "Error"}
  /\ \A q \in Publishers :
       AfterExit(q) =>
         /\ pdelivered[q] = 0
         /\ pattempt[q] <= PublishAttempts
         /\ ppc[q] = "returned" => (pattempt[q] = PublishAttempts /\ pwaits[q] = PublishAttempts)
C31_Step == pc = "exited" => (pc' = "exited" /\ client_state' = client_state)
C31_Terminal == [][C31_Step]_vars /\ []C31_Inv

C31_Witness ==
  /\ exit_reason = "retries" /\ client # 0 /\ client_state.tag = "Disconnected"
  /\ \E q \in Publishers : AfterExit(q) /\ ppc[q] = "returned" /\ pattempt[q] = PublishAttempts

\* C32: for two publishes p1 then p2 on one registered topic, polled in that
\* order, once both handlers have stored their value get_last_value returns
\* the payload of p2 and get_last_values lists p2 before p1.
BothStored(t) ==
  /\ Len(tasks) = 2
  /\ \A i \in TaskIds : tasks[i].st = "done" /\ tasks[i].outcome = "ok"
  /\ \A i \in DOMAIN events : events[i].kind = "publish" /\ events[i].topic = t
  /\ SelectTopic(t) # {}
C32_PollOrderPersisted ==
  BothStored(call.topic) =>
    /\ call.op = "get_last_value" => (Len(result) = 1 /\ result[1][1] = events[2].value)
    /\ (call.op = "get_last_values" /\ call.limit >= 2)
         => (Len(result) = 2 /\ result[1][1] = events[2].value /\ result[2][1] = events[1].value)

\* C33: under fair scheduling and a fair client-handle lock every
\* publish_message call that has been made eventually returns, and the serve
\* loop eventually installs the client handle of each attempt.
C33_NoDeadlock ==
  /\ \A q \in Publishers : (ppc[q] \in {"lock", "send", "sleep"}) ~> (ppc[q] = "returned")
  /\ (pc = "new_client") ~> (pc = "set_connecting")

====
